---- MODULE Spec2Model ----
(***************************************************************************)
(* Route-Sasa: the rider assignment and routing engine                     *)
(* (orders/assignment_service.py) with the request handlers that change    *)
(* orders, riders and routes (orders/views.py, riders/views.py).           *)
(*                                                                         *)
(* The database is three tables: orders, riders and routes.  A handler is  *)
(* a sequence of database statements; AssignStep is one statement of       *)
(* assign_orders_to_riders.  Under Spec a handler runs from its first to   *)
(* its last statement as one action; under SpecConc two assign calls       *)
(* interleave statement by statement (Django's autocommit: the service     *)
(* opens no transaction and takes no lock).                                *)
(*                                                                         *)
(* Times of day and dates are small integers, compared as the code         *)
(* compares them.  A rating is held in hundredths (DecimalField with two   *)
(* decimal places); a score is an exact fraction, compared by cross        *)
(* multiplication.                                                         *)
(***************************************************************************)
EXTENDS Integers, Sequences, FiniteSets, TLC

\* ------------------------------------------------------------------ bounds
NumOrders == 3
NumRiders == 2
NumLandmarks == 2
NumDates == 2
MaxTime == 2
MaxRoutes == 3
MaxOps == 3
MaxRouteOps == 4
MaxScoreOps == 3
NumScoreOrders == 7
MaxDeliveries == 2
MaxGroupOps == 2
MaxStatusOps == 2
MaxCohortOps == 2

\* the null reference of a nullable foreign key
NoRider == 0
NoLandmark == 0

OrderIds == 1..NumOrders
RiderIds == 1..NumRiders
Landmarks == 1..NumLandmarks
Dates == 1..NumDates
Times == 1..MaxTime

ORDER_STATUS ==
  {"PENDING_CONFIRMATION", "CONFIRMED", "RESCHEDULE_REQUESTED", "ASSIGNED",
   "IN_TRANSIT", "DELIVERED", "FAILED", "CANCELLED"}

STATUS_CHOICES == {"AVAILABLE", "ON_DELIVERY", "OFFLINE"}

VARIABLES
  orders,   \* the Order table: id -> row
  riders,   \* the Rider table: id -> row
  routes,   \* the DeliveryRoute table in creation order: index = route id
  calls,    \* the assign calls in progress, one per caller
  last,     \* the handler that returned last, with its arguments and response
  ops       \* number of requests still to be handled

vars == <<orders, riders, routes, calls, last, ops>>

\* ------------------------------------------------------------- small helpers
RECURSIVE SetMax(_)
SetMax(S) ==
  LET x == CHOOSE y \in S : TRUE
  IN IF S = {x} THEN x
     ELSE LET m == SetMax(S \ {x}) IN IF x > m THEN x ELSE m

RECURSIVE SetMin(_)
SetMin(S) ==
  LET x == CHOOSE y \in S : TRUE
  IN IF S = {x} THEN x
     ELSE LET m == SetMin(S \ {x}) IN IF x < m THEN x ELSE m

SeqRange(s) == {s[i] : i \in 1..Len(s)}

\* all the orderings of a finite set, as sequences without repetition
Orderings(S) ==
  {s \in [1..Cardinality(S) -> S] : \A i, j \in 1..Cardinality(S) : i # j => s[i] # s[j]}

\* the database as one value
DB == [orders |-> orders, riders |-> riders, routes |-> routes]

\* ------------------------------------------------------------------ querysets
\* Order.Meta.ordering = ['-created_at']: newest first; ids grow with created_at
RECURSIVE NewestFirst(_)
NewestFirst(S) ==
  IF S = {} THEN <<>>
  ELSE LET m == SetMax(S) IN <<m>> \o NewestFirst(S \ {m})

\* Order.objects.filter(status='CONFIRMED', assigned_rider__isnull=True)
DefaultQueryset(d) ==
  {o \in OrderIds : d.orders[o].status = "CONFIRMED" /\ d.orders[o].assigned_rider = NoRider}

\* a queryset is lazy: it is the default filter or the caller's filter (a set of
\* primary keys), evaluated against the table each time it is executed
QsEval(d, qs) == IF qs.default THEN DefaultQueryset(d) ELSE qs.ids

\* an Order instance in memory: the row as it was fetched
Fetch(d, o) == [id |-> o] @@ d.orders[o]

FetchAll(d, qs) ==
  LET s == NewestFirst(QsEval(d, qs)) IN [i \in 1..Len(s) |-> Fetch(d, s[i])]

\* a model instance in memory without its primary key: the columns save() writes
Row(obj) == [f \in DOMAIN obj \ {"id"} |-> obj[f]]

\* ------------------------------------------------------------------- grouping
\* a faulty variant of GroupFold: the key is the landmark alone
RECURSIVE GroupFoldByLandmark(_, _, _)
GroupFoldByLandmark(os, i, grouped) ==
  IF i > Len(os) THEN grouped
  ELSE LET order == os[i]
           hit == {k \in 1..Len(grouped) : grouped[k].landmark = order.landmark}
       IN IF hit = {}
          THEN GroupFoldByLandmark(os, i + 1,
                 Append(grouped, [landmark |-> order.landmark,
                                  delivery_date |-> order.delivery_date,
                                  orders |-> <<order>>]))
          ELSE LET k == CHOOSE k \in hit : TRUE
               IN GroupFoldByLandmark(os, i + 1,
                    [grouped EXCEPT ![k].orders = Append(@, order)])

RECURSIVE GroupFold(_, _, _)
GroupFold(os, i, grouped) ==
  IF i > Len(os) THEN grouped
  ELSE LET order == os[i]
           hit == {k \in 1..Len(grouped) :
                     /\ grouped[k].landmark = order.landmark
                     /\ grouped[k].delivery_date = order.delivery_date}
       IN IF hit = {}
          THEN GroupFold(os, i + 1,
                 Append(grouped, [landmark |-> order.landmark,
                                  delivery_date |-> order.delivery_date,
                                  orders |-> <<order>>]))
          ELSE LET k == CHOOSE k \in hit : TRUE
               IN GroupFold(os, i + 1, [grouped EXCEPT ![k].orders = Append(@, order)])

\* _group_orders_by_landmark_and_date: a dict in insertion order, as a sequence
GroupOrdersByLandmarkAndDate(os) == GroupFold(os, 1, <<>>)

\* ------------------------------------------------------------ rider selection
\* order_by('-rating', '-successful_deliveries'): a before b is allowed
RiderOrderOk(a, b) ==
  \/ a.rating > b.rating
  \/ a.rating = b.rating /\ a.successful_deliveries >= b.successful_deliveries

\* Rider.objects.filter(status='AVAILABLE').order_by(...), executed: the rows in
\* any order the ORDER BY allows (rows equal on both keys come in any order)
AvailableRiders(d) ==
  LET A == {r \in RiderIds : d.riders[r].status = "AVAILABLE"}
  IN {[i \in 1..Len(s) |-> [id |-> s[i]] @@ d.riders[s[i]]] :
        s \in {t \in Orderings(A) :
                \A i, j \in 1..Cardinality(A) :
                   i < j => RiderOrderOk(d.riders[t[i]], d.riders[t[j]])}}

AvailableRidersExist(d) == \E r \in RiderIds : d.riders[r].status = "AVAILABLE"

\* a faulty variant of CurrentAssignments: the filter on delivery_date is left out
CurrentAssignmentsAnyDate(d, r, date) ==
  Cardinality({o \in DOMAIN d.orders :
                 /\ d.orders[o].assigned_rider = r
                 /\ d.orders[o].status \in {"ASSIGNED", "IN_TRANSIT"}})

\* Order.objects.filter(assigned_rider=rider, status__in=[...], delivery_date=...).count()
CurrentAssignments(d, r, date) ==
  Cardinality({o \in DOMAIN d.orders :
                 /\ d.orders[o].assigned_rider = r
                 /\ d.orders[o].status \in {"ASSIGNED", "IN_TRANSIT"}
                 /\ d.orders[o].delivery_date = date})

\* a faulty variant of WorkloadScore: the bucket limits compared with <
WorkloadScoreExclusive(current_assignments) ==
  IF current_assignments = 0 THEN 25
  ELSE IF current_assignments < 2 THEN 15
  ELSE IF current_assignments < 5 THEN 5
  ELSE 0

WorkloadScore(current_assignments) ==
  IF current_assignments = 0 THEN 25
  ELSE IF current_assignments <= 2 THEN 15
  ELSE IF current_assignments <= 5 THEN 5
  ELSE 0

FamiliarityScore(rider, landmark) ==
  IF landmark \in rider.preferred_landmarks THEN 30 ELSE 0

\* the score of a rider, as the fraction num / den with den > 0:
\*   familiarity + workload + (rating / 5.0) * 25 + (success_rate / 100.0) * 20
\* rating is in hundredths, so (rating / 5.0) * 25 = rating_hundredths / 20;
\* success_rate is 0 with no deliveries and successful / total * 100 otherwise
Score(d, rider, landmark, os) ==
  LET base == FamiliarityScore(rider, landmark)
                + WorkloadScore(CurrentAssignments(d, rider.id, os[1].delivery_date))
      t == IF rider.total_deliveries = 0 THEN 1 ELSE rider.total_deliveries
      s == IF rider.total_deliveries = 0 THEN 0 ELSE rider.successful_deliveries
  IN [num |-> base * 20 * t + rider.rating * t + 400 * s, den |-> 20 * t]

ScoreGreater(a, b) == a.num * b.den > b.num * a.den

NoneRider == [id |-> NoRider]

\* lines 108-133: scored_riders, one (rider, score) per rider of the pool, in
\* the pool's iteration order, with the parts the score is the sum of
ScoredRiders(d, pool, landmark, os) ==
  [i \in 1..Len(pool) |->
     LET n == CurrentAssignments(d, pool[i].id, os[1].delivery_date)
     IN [rider |-> pool[i],
         familiarity |-> FamiliarityScore(pool[i], landmark),
         current_assignments |-> n,
         workload |-> WorkloadScore(n),
         rating_score |-> [num |-> pool[i].rating, den |-> 20],
         score |-> Score(d, pool[i], landmark, os)]]

\* a faulty variant of SortInsert: x goes before the entries of equal score
SortInsertBeforeEqual(sorted, x) ==
  LET later == {i \in 1..Len(sorted) : ~ScoreGreater(sorted[i].score, x.score)}
      k == IF later = {} THEN Len(sorted) + 1 ELSE SetMin(later)
  IN SubSeq(sorted, 1, k - 1) \o <<x>> \o SubSeq(sorted, k, Len(sorted))

\* list.sort(key=score, reverse=True) is stable: x goes behind every entry
\* whose score is not smaller than its own
SortInsert(sorted, x) ==
  LET later == {i \in 1..Len(sorted) : ScoreGreater(x.score, sorted[i].score)}
      k == IF later = {} THEN Len(sorted) + 1 ELSE SetMin(later)
  IN SubSeq(sorted, 1, k - 1) \o <<x>> \o SubSeq(sorted, k, Len(sorted))

RECURSIVE SortFold(_, _, _)
SortFold(scored, i, sorted) ==
  IF i > Len(scored) THEN sorted
  ELSE SortFold(scored, i + 1, SortInsert(sorted, scored[i]))

\* line 135: scored_riders.sort(key=lambda x: x[1], reverse=True)
SortByScore(scored) == SortFold(scored, 1, <<>>)

\* _find_best_rider: scored_riders[0][0] if scored_riders else None
FindBestRider(d, pool, landmark, os) ==
  IF Len(pool) = 0 THEN NoneRider
  ELSE SortByScore(ScoredRiders(d, pool, landmark, os))[1].rider

\* ------------------------------------------------------------------- routes
RoutesOf(d, rider, date) ==
  {i \in 1..Len(d.routes) : d.routes[i].rider = rider /\ d.routes[i].route_date = date}

\* existing_routes.first().sequence + 1 if existing_routes.exists() else 1
NextSequence(d, rider, date) ==
  IF RoutesOf(d, rider, date) = {} THEN 1
  ELSE SetMax({d.routes[i].sequence : i \in RoutesOf(d, rider, date)}) + 1

\* a faulty variant of EstimatedArrival: the latest start time of the orders
EstimatedArrivalLatest(os) == SetMax({os[i].delivery_time_start : i \in 1..Len(os)})

\* min([o.delivery_time_start for o in orders])
EstimatedArrival(os) == SetMin({os[i].delivery_time_start : i \in 1..Len(os)})

\* DeliveryRoute.objects.create(...): the new row, without members yet
NewRoute(rider, date, landmark, sequence, eta) ==
  [rider |-> rider, route_date |-> date, landmark |-> landmark,
   sequence |-> sequence, estimated_arrival |-> eta,
   orders |-> {}, completed |-> FALSE]

\* ------------------------------------------ assign_orders_to_riders, by statement
\* A call's local state.  pc is the statement to execute next; fetched is the
\* queryset's result cache; grouped the groups in processing order; gi the group
\* being processed; best the selected Rider instance; oi the next order of the
\* save loop; sequence and route the locals of _create_delivery_route; report
\* the value returned ("raised": an exception left the call).  done and sent
\* record what the call did: per processed group its outcome, and the rider
\* notifications attempted (they are not read by the call).
IdleCall ==
  [pc |-> "idle", qs |-> [default |-> TRUE, ids |-> {}], fetched |-> <<>>,
   grouped |-> <<>>, gi |-> 0, best |-> NoneRider, oi |-> 0, sequence |-> 0,
   route |-> 0, results |-> <<>>, assigned_count |-> 0,
   report |-> [status |-> "none"], done |-> <<>>, sent |-> <<>>]

StartCall(qs) == [IdleCall EXCEPT !.pc = "start", !.qs = qs]

Group(c) == c.loc.grouped[c.loc.gi]

OrderIdsOf(os) == {os[i].id : i \in 1..Len(os)}

\* what the call did with the group it is at: "assigned", "failed" (a failure
\* entry) or "raised" (an exception left the call there)
Outcome(c, outcome, reason, rider, route) ==
  [outcome |-> outcome, reason |-> reason, landmark |-> Group(c).landmark,
   delivery_date |-> Group(c).delivery_date, orders |-> OrderIdsOf(Group(c).orders),
   rider |-> rider, route |-> route]

\* an exception propagates out of assign_orders_to_riders: nothing is rolled back
Raise(c, rider) ==
  [c EXCEPT !.loc.pc = "done", !.loc.report = [status |-> "raised"],
            !.loc.done = Append(@, Outcome(c, "raised", "", rider, 0))]

\* a faulty variant of NextGroup: assigned_count counts the groups assigned
NextGroupCountsGroups(c, result, outcome) ==
  [c EXCEPT
     !.loc.results = Append(@, result),
     !.loc.assigned_count = IF result.success THEN @ + 1 ELSE @,
     !.loc.done = Append(@, outcome),
     !.loc.gi = @ + 1,
     !.loc.pc = IF c.loc.gi + 1 > Len(c.loc.grouped) THEN "return" ELSE "riders"]

\* lines 30-32: the group's result is recorded and the loop goes on
NextGroup(c, result, outcome) ==
  [c EXCEPT
     !.loc.results = Append(@, result),
     !.loc.assigned_count = IF result.success THEN @ + Len(Group(c).orders) ELSE @,
     !.loc.done = Append(@, outcome),
     !.loc.gi = @ + 1,
     !.loc.pc = IF c.loc.gi + 1 > Len(c.loc.grouped) THEN "return" ELSE "riders"]

\* a failure entry reads landmark.name: AttributeError on a null landmark
FailGroup(c, reason) ==
  IF Group(c).landmark = NoLandmark THEN Raise(c, NoRider)
  ELSE NextGroup(c, [success |-> FALSE, landmark |-> Group(c).landmark,
                     reason |-> reason, order_count |-> Len(Group(c).orders)],
                 Outcome(c, "failed", reason, NoRider, 0))

\* a faulty variant of StepStart: the check for an empty queryset is left out
StepStartNoCheck(c) == {[c EXCEPT !.loc.pc = "group"]}

\* lines 14-21: orders_queryset.exists()
StepStart(c) ==
  IF QsEval(c.db, c.loc.qs) = {}
  THEN {[c EXCEPT !.loc.pc = "done", !.loc.report = [status |-> "no_orders"]]}
  ELSE {[c EXCEPT !.loc.pc = "group"]}

\* lines 23-28: iterating the queryset fetches it; the groups are built
StepGroup(c) ==
  LET fetched == FetchAll(c.db, c.loc.qs)
      grouped == GroupOrdersByLandmarkAndDate(fetched)
  IN {[c EXCEPT !.loc.fetched = fetched, !.loc.grouped = grouped, !.loc.gi = 1,
                !.loc.pc = IF Len(grouped) = 0 THEN "return" ELSE "riders"]}

\* lines 56-66: available_riders.exists()
StepRiders(c) ==
  IF AvailableRidersExist(c.db)
  THEN {[c EXCEPT !.loc.pc = "find"]}
  ELSE {FailGroup(c, "No available riders")}

\* lines 68-76: _find_best_rider iterates available_riders (a second query)
StepFind(c) ==
  {LET best == FindBestRider(c.db, pool, Group(c).landmark, Group(c).orders)
   IN IF best.id = NoRider
      THEN FailGroup(c, "No suitable rider found")
      ELSE [c EXCEPT !.loc.best = best, !.loc.oi = 1, !.loc.pc = "save"]
   : pool \in AvailableRiders(c.db)}

\* a faulty variant of StepSave: the rider is set ON_DELIVERY with the first
\* order saved
StepSaveFlipsRider(c) ==
  LET order == [Group(c).orders[c.loc.oi] EXCEPT
                  !.assigned_rider = c.loc.best.id, !.status = "ASSIGNED"]
  IN {[c EXCEPT !.db.orders[order.id] = Row(order),
                !.db.riders[c.loc.best.id].status = "ON_DELIVERY",
                !.loc.grouped[c.loc.gi].orders[c.loc.oi] = order,
                !.loc.oi = @ + 1,
                !.loc.pc = IF c.loc.oi + 1 > Len(Group(c).orders)
                           THEN "route_read" ELSE "save"]}

\* lines 78-81: one turn of the loop; order.save() writes every column of the
\* instance in memory
StepSave(c) ==
  LET order == [Group(c).orders[c.loc.oi] EXCEPT
                  !.assigned_rider = c.loc.best.id, !.status = "ASSIGNED"]
  IN {[c EXCEPT !.db.orders[order.id] = Row(order),
                !.loc.grouped[c.loc.gi].orders[c.loc.oi] = order,
                !.loc.oi = @ + 1,
                !.loc.pc = IF c.loc.oi + 1 > Len(Group(c).orders)
                           THEN "route_read" ELSE "save"]}

\* lines 142-147: the read of the rider's routes for the date
StepRouteRead(c) ==
  {[c EXCEPT !.loc.sequence = NextSequence(c.db, c.loc.best.id, Group(c).delivery_date),
             !.loc.pc = "route_create"]}

\* lines 149-157: DeliveryRoute.landmark is not nullable: IntegrityError
StepRouteCreate(c) ==
  IF Group(c).landmark = NoLandmark THEN {Raise(c, c.loc.best.id)}
  ELSE IF Len(c.db.routes) >= MaxRoutes THEN {}
  ELSE {[c EXCEPT
           !.db.routes = Append(@, NewRoute(c.loc.best.id, Group(c).delivery_date,
                                            Group(c).landmark, c.loc.sequence,
                                            EstimatedArrival(Group(c).orders))),
           !.loc.route = Len(c.db.routes) + 1,
           !.loc.pc = "route_set"]}

\* a faulty variant of StepRouteSet: only the first order becomes a member of the route
StepRouteSetFirstOnly(c) ==
  {[c EXCEPT !.db.routes[c.loc.route].orders = {Group(c).orders[1].id},
             !.loc.pc = "sms"]}

\* line 159: route.orders.set(orders)
StepRouteSet(c) ==
  {[c EXCEPT !.db.routes[c.loc.route].orders = OrderIdsOf(Group(c).orders),
             !.loc.pc = "sms"]}

\* a faulty variant of StepSms: a failed notification is sent a second time
StepSmsRetry(c) ==
  LET msg(delivered) == [rider |-> c.loc.best.id,
                         order_count |-> Len(Group(c).orders),
                         start_time |-> EstimatedArrival(Group(c).orders),
                         delivered |-> delivered]
  IN {[c EXCEPT !.loc.sent = IF first THEN Append(@, msg(TRUE))
                              ELSE Append(Append(@, msg(FALSE)), msg(second)),
                !.loc.pc = "rider_save"]
      : first \in BOOLEAN, second \in BOOLEAN}

\* line 85: send_rider_assignment_sms; _send_sms catches the provider's error
\* and returns False, and the result is not looked at
StepSms(c) ==
  {[c EXCEPT !.loc.sent = Append(@, [rider |-> c.loc.best.id,
                                      order_count |-> Len(Group(c).orders),
                                      start_time |-> EstimatedArrival(Group(c).orders),
                                      delivered |-> delivered]),
             !.loc.pc = "rider_save"]
   : delivered \in BOOLEAN}

\* a faulty variant of StepRiderSave: the rider's status is not set to ON_DELIVERY
StepRiderSaveNoFlip(c) ==
  {NextGroup(c, [success |-> TRUE, landmark |-> Group(c).landmark,
                 rider |-> c.loc.best.id, order_count |-> Len(Group(c).orders),
                 route_id |-> c.loc.route],
             Outcome(c, "assigned", "", c.loc.best.id, c.loc.route))}

\* lines 87-96: best_rider.save() writes every column of the instance in memory
StepRiderSave(c) ==
  LET best == [c.loc.best EXCEPT !.status = "ON_DELIVERY"]
      c2 == [c EXCEPT !.db.riders[best.id] = Row(best), !.loc.best = best]
  IN {NextGroup(c2, [success |-> TRUE, landmark |-> Group(c).landmark,
                     rider |-> best.id, order_count |-> Len(Group(c).orders),
                     route_id |-> c.loc.route],
                Outcome(c, "assigned", "", best.id, c.loc.route))}

\* lines 34-39: count() of an evaluated queryset is the size of its cache
StepReturn(c) ==
  {[c EXCEPT !.loc.pc = "done",
             !.loc.report = [status |-> "success",
                             assigned_count |-> c.loc.assigned_count,
                             total_orders |-> Len(c.loc.fetched),
                             details |-> c.loc.results]]}

\* one statement of a call: the configurations it can lead to
AssignStep(c) ==
  CASE c.loc.pc = "start" -> StepStart(c)
    [] c.loc.pc = "group" -> StepGroup(c)
    [] c.loc.pc = "riders" -> StepRiders(c)
    [] c.loc.pc = "find" -> StepFind(c)
    [] c.loc.pc = "save" -> StepSave(c)
    [] c.loc.pc = "route_read" -> StepRouteRead(c)
    [] c.loc.pc = "route_create" -> StepRouteCreate(c)
    [] c.loc.pc = "route_set" -> StepRouteSet(c)
    [] c.loc.pc = "sms" -> StepSms(c)
    [] c.loc.pc = "rider_save" -> StepRiderSave(c)
    [] c.loc.pc = "return" -> StepReturn(c)
    [] OTHER -> {}

\* a call run from c to its return with nothing in between
RECURSIVE RunAssign(_)
RunAssign(c) ==
  IF c.loc.pc = "done" THEN {c}
  ELSE UNION {RunAssign(c2) : c2 \in AssignStep(c)}

\* assign_orders_to_riders(orders_queryset) as one operation on the database
AssignOrdersToRiders(d, qs) == RunAssign([db |-> d, loc |-> StartCall(qs)])

\* ------------------------------------------------------- optimize_rider_route
\* a faulty variant of IncompleteRoutes: the filter completed=False is left out
IncompleteRoutesAll(d, rider, date) == RoutesOf(d, rider, date)

IncompleteRoutes(d, rider, date) ==
  {i \in RoutesOf(d, rider, date) : ~d.routes[i].completed}

\* .order_by('estimated_arrival'), executed: the rows in any order the ORDER BY
\* allows; order_by replaces Meta.ordering, so equal arrivals come in any order
RoutesByArrival(d, rider, date) ==
  LET R == IncompleteRoutes(d, rider, date)
  IN {s \in Orderings(R) :
        \A i, j \in 1..Cardinality(R) :
           i < j => d.routes[s[i]].estimated_arrival <= d.routes[s[j]].estimated_arrival}

\* a faulty variant of Renumber: enumerate(routes) counting from 0
RenumberFromZero(d, s) ==
  [d EXCEPT !.routes =
     [i \in 1..Len(d.routes) |->
        IF \E k \in 1..Len(s) : s[k] = i
        THEN [d.routes[i] EXCEPT !.sequence = (CHOOSE k \in 1..Len(s) : s[k] = i) - 1]
        ELSE d.routes[i]]]

\* lines 174-176: for idx, route in enumerate(routes, start=1)
Renumber(d, s) ==
  [d EXCEPT !.routes =
     [i \in 1..Len(d.routes) |->
        IF \E k \in 1..Len(s) : s[k] = i
        THEN [d.routes[i] EXCEPT !.sequence = CHOOSE k \in 1..Len(s) : s[k] = i]
        ELSE d.routes[i]]]

\* lines 178-191: the summary returned, from the instances just renumbered
Summary(d, rider, date, s) ==
  [rider |-> rider, date |-> date, route_count |-> Len(s),
   routes |-> [k \in 1..Len(s) |->
                 [sequence |-> k, landmark |-> d.routes[s[k]].landmark,
                  time |-> d.routes[s[k]].estimated_arrival,
                  orders |-> Cardinality(d.routes[s[k]].orders)]]]

\* optimize_rider_route(rider, delivery_date): the outcomes it can have
OptimizeRiderRoute(d, rider, date) ==
  {[db |-> Renumber(d, s), summary |-> Summary(d, rider, date, s)] :
     s \in RoutesByArrival(d, rider, date)}

\* --------------------------------------------------------- the other handlers
\* a faulty variant of ManualAssignOrder: the order is marked ASSIGNED before
\* the rider is looked up
ManualAssignOrderMarkFirst(d, is_staff, pk, rider_id) ==
  IF ~is_staff THEN {[db |-> d, status |-> 403, sent |-> <<>>]}
  ELSE IF pk \notin OrderIds THEN {[db |-> d, status |-> 404, sent |-> <<>>]}
  ELSE IF rider_id = NoRider THEN {[db |-> d, status |-> 400, sent |-> <<>>]}
  ELSE IF rider_id \notin RiderIds
    THEN {[db |-> [d EXCEPT !.orders[pk].status = "ASSIGNED"], status |-> 404,
           sent |-> <<>>]}
  ELSE
    LET order == d.orders[pk]
        d1 == [d EXCEPT !.orders[pk].assigned_rider = rider_id,
                        !.orders[pk].status = "ASSIGNED"]
        route == [NewRoute(rider_id, order.delivery_date, order.landmark, 1,
                           order.delivery_time_start) EXCEPT !.orders = {pk}]
    IN IF order.landmark = NoLandmark
       THEN {[db |-> d1, status |-> 500, sent |-> <<>>]}
       ELSE {[db |-> [d1 EXCEPT !.routes = Append(@, route)], status |-> 200,
              sent |-> <<[rider |-> rider_id, order_count |-> 1,
                          start_time |-> order.delivery_time_start,
                          delivered |-> delivered]>>] : delivered \in BOOLEAN}

\* a faulty variant of ManualAssignOrder: the route takes the rider's next
\* sequence for the date
ManualAssignOrderNextSequence(d, is_staff, pk, rider_id) ==
  IF ~is_staff THEN {[db |-> d, status |-> 403, sent |-> <<>>]}
  ELSE IF pk \notin OrderIds THEN {[db |-> d, status |-> 404, sent |-> <<>>]}
  ELSE IF rider_id = NoRider THEN {[db |-> d, status |-> 400, sent |-> <<>>]}
  ELSE IF rider_id \notin RiderIds THEN {[db |-> d, status |-> 404, sent |-> <<>>]}
  ELSE
    LET order == d.orders[pk]
        d1 == [d EXCEPT !.orders[pk].assigned_rider = rider_id,
                        !.orders[pk].status = "ASSIGNED"]
        route == [NewRoute(rider_id, order.delivery_date, order.landmark,
                           NextSequence(d, rider_id, order.delivery_date),
                           order.delivery_time_start) EXCEPT !.orders = {pk}]
    IN IF order.landmark = NoLandmark
       THEN {[db |-> d1, status |-> 500, sent |-> <<>>]}
       ELSE {[db |-> [d1 EXCEPT !.routes = Append(@, route)], status |-> 200,
              sent |-> <<[rider |-> rider_id, order_count |-> 1,
                          start_time |-> order.delivery_time_start,
                          delivered |-> delivered]>>] : delivered \in BOOLEAN}

\* ManualAssignOrderView.post: the outcomes it can have (HTTP status, database,
\* rider notifications attempted)
ManualAssignOrder(d, is_staff, pk, rider_id) ==
  IF ~is_staff THEN {[db |-> d, status |-> 403, sent |-> <<>>]}
  ELSE IF pk \notin OrderIds THEN {[db |-> d, status |-> 404, sent |-> <<>>]}
  ELSE IF rider_id = NoRider THEN {[db |-> d, status |-> 400, sent |-> <<>>]}
  ELSE IF rider_id \notin RiderIds THEN {[db |-> d, status |-> 404, sent |-> <<>>]}
  ELSE
    LET order == d.orders[pk]
        d1 == [d EXCEPT !.orders[pk].assigned_rider = rider_id,
                        !.orders[pk].status = "ASSIGNED"]
        route == [NewRoute(rider_id, order.delivery_date, order.landmark, 1,
                           order.delivery_time_start) EXCEPT !.orders = {pk}]
    IN IF order.landmark = NoLandmark
       THEN {[db |-> d1, status |-> 500, sent |-> <<>>]}
       ELSE {[db |-> [d1 EXCEPT !.routes = Append(@, route)], status |-> 200,
              sent |-> <<[rider |-> rider_id, order_count |-> 1,
                          start_time |-> order.delivery_time_start,
                          delivered |-> delivered]>>] : delivered \in BOOLEAN}

\* OrderConfirmView.post
ConfirmOrder(d, pk) ==
  IF pk \notin OrderIds THEN [db |-> d, status |-> 404]
  ELSE IF d.orders[pk].status # "PENDING_CONFIRMATION" THEN [db |-> d, status |-> 400]
  ELSE [db |-> [d EXCEPT !.orders[pk].status = "CONFIRMED"], status |-> 200]

\* RiderUpdateStatusView.post
UpdateRiderStatus(d, pk, new_status) ==
  IF pk \notin RiderIds THEN [db |-> d, status |-> 404]
  ELSE IF new_status \notin {"AVAILABLE", "ON_DELIVERY", "OFFLINE"}
  THEN [db |-> d, status |-> 400]
  ELSE [db |-> [d EXCEPT !.riders[pk].status = new_status], status |-> 200]

\* DeliveryRouteDetailView (RetrieveUpdateAPIView): PATCH {"completed": true}
CompleteRouteById(d, pk) ==
  IF pk \notin 1..Len(d.routes) THEN [db |-> d, status |-> 404]
  ELSE [db |-> [d EXCEPT !.routes[pk].completed = TRUE], status |-> 200]

\* OrderRescheduleView.post
RescheduleOrder(d, pk) ==
  IF pk \notin OrderIds THEN [db |-> d, status |-> 404]
  ELSE IF d.orders[pk].status # "PENDING_CONFIRMATION" THEN [db |-> d, status |-> 400]
  ELSE [db |-> [d EXCEPT !.orders[pk].status = "RESCHEDULE_REQUESTED"], status |-> 200]

\* OrderStatusUpdateSerializer: is_valid(); proof and reason are given or not
StatusUpdateValid(req) ==
  /\ req.status \in ORDER_STATUS
  /\ req.status = "DELIVERED" => req.delivery_proof
  /\ req.status = "FAILED" => req.failure_reason

\* a faulty variant of CountDelivery: a failed delivery counted as successful
CountDeliveryAsSuccess(d, pk, new_status) ==
  LET r == d.orders[pk].assigned_rider
  IN IF new_status \in {"DELIVERED", "FAILED"} /\ r # NoRider
  THEN [d EXCEPT !.riders[r].total_deliveries = @ + 1,
                 !.riders[r].successful_deliveries = @ + 1]
  ELSE d

\* a faulty variant of CountDelivery: a failed delivery is not added to the total
CountDeliveryFailedUncounted(d, pk, new_status) ==
  LET r == d.orders[pk].assigned_rider
  IN IF new_status = "DELIVERED" /\ r # NoRider
     THEN [d EXCEPT !.riders[r].total_deliveries = @ + 1,
                    !.riders[r].successful_deliveries = @ + 1]
     ELSE IF new_status = "FAILED" /\ r # NoRider
     THEN [d EXCEPT !.riders[r].failed_deliveries = @ + 1]
     ELSE d

\* lines 154-175: the rider's counters, when the order has a rider
CountDelivery(d, pk, new_status) ==
  LET r == d.orders[pk].assigned_rider
  IN IF new_status = "DELIVERED" /\ r # NoRider
     THEN [d EXCEPT !.riders[r].total_deliveries = @ + 1,
                    !.riders[r].successful_deliveries = @ + 1]
     ELSE IF new_status = "FAILED" /\ r # NoRider
     THEN [d EXCEPT !.riders[r].total_deliveries = @ + 1,
                    !.riders[r].failed_deliveries = @ + 1]
     ELSE d

\* OrderUpdateStatusView.post
UpdateOrderStatus(d, pk, req) ==
  IF pk \notin OrderIds THEN [db |-> d, status |-> 404]
  ELSE IF ~StatusUpdateValid(req) THEN [db |-> d, status |-> 400]
  ELSE [db |-> [CountDelivery(d, pk, req.status) EXCEPT !.orders[pk].status = req.status],
        status |-> 200]

\* strings as sequences of characters
StartsWithAt(s, i, pat) ==
  /\ i + Len(pat) - 1 <= Len(s)
  /\ SubSeq(s, i, i + Len(pat) - 1) = pat

\* str.replace(pat, rep): every occurrence, from the left, without overlap
RECURSIVE ReplaceFrom(_, _, _, _)
ReplaceFrom(s, i, pat, rep) ==
  IF i > Len(s) THEN <<>>
  ELSE IF StartsWithAt(s, i, pat) THEN rep \o ReplaceFrom(s, i + Len(pat), pat, rep)
  ELSE <<s[i]>> \o ReplaceFrom(s, i + 1, pat, rep)

Replace(s, pat, rep) == ReplaceFrom(s, 1, pat, rep)

\* field__icontains=needle
Contains(hay, needle) == \E i \in 1..(Len(hay) + 1) : StartsWithAt(hay, i, needle)

\* str.strip()
RECURSIVE Strip(_)
Strip(s) ==
  IF s = <<>> THEN s
  ELSE IF s[1] = " " THEN Strip(Tail(s))
  ELSE IF s[Len(s)] = " " THEN Strip(SubSeq(s, 1, Len(s) - 1))
  ELSE s

\* a faulty variant of PendingOrderFor: the filter on the status is left out
AnyOrderFor(d, phone) ==
  LET needle == Replace(Replace(phone, <<"+", "2", "5", "4">>, <<"0">>), <<"+">>, <<>>)
      hits == {o \in OrderIds : Contains(d.orders[o].customer_phone, needle)}
  IN IF hits = {} THEN 0 ELSE SetMax(hits)

\* lines 157-160: phone.replace('+254', '0').replace('+', ''), and the newest
\* PENDING_CONFIRMATION order whose customer_phone contains it (0 if none)
PendingOrderFor(d, phone) ==
  LET needle == Replace(Replace(phone, <<"+", "2", "5", "4">>, <<"0">>), <<"+">>, <<>>)
      hits == {o \in OrderIds : /\ Contains(d.orders[o].customer_phone, needle)
                                /\ d.orders[o].status = "PENDING_CONFIRMATION"}
  IN IF hits = {} THEN 0 ELSE SetMax(hits)

\* SMSService.handle_incoming_sms
HandleIncomingSms(d, phone, message) ==
  LET o == PendingOrderFor(d, phone)
      response == Strip(message)
  IN IF o = 0 THEN [db |-> d, result |-> [status |-> "error", order_id |-> 0]]
     ELSE IF response = <<"1">>
     THEN [db |-> [d EXCEPT !.orders[o].status = "CONFIRMED"],
           result |-> [status |-> "success", order_id |-> o]]
     ELSE IF response = <<"2">>
     THEN [db |-> [d EXCEPT !.orders[o].status = "RESCHEDULE_REQUESTED"],
           result |-> [status |-> "success", order_id |-> o]]
     ELSE [db |-> d, result |-> [status |-> "error", order_id |-> 0]]

\* SMSWebhookView.post
SmsWebhook(d, phone, text) ==
  IF phone = <<>> \/ Strip(text) = <<>>
  THEN [db |-> d, status |-> 400, result |-> [status |-> "error", order_id |-> 0]]
  ELSE [status |-> 200] @@ HandleIncomingSms(d, phone, Strip(text))

\* RiderDetailView (RetrieveUpdateAPIView): PATCH {"rating": ...}, the rating in
\* hundredths; DecimalField(max_digits=3, decimal_places=2) takes -9.99..9.99
UpdateRiderRating(d, pk, rating) ==
  IF pk \notin RiderIds THEN [db |-> d, status |-> 404]
  ELSE IF rating < -999 \/ rating > 999 THEN [db |-> d, status |-> 400]
  ELSE [db |-> [d EXCEPT !.riders[pk].rating = rating], status |-> 200]

\* RiderDetailView (RetrieveUpdateAPIView): PATCH {"total_deliveries": ...,
\* "successful_deliveries": ...}; RiderDetailSerializer declares no read-only
\* model field and an IntegerField takes any integer
UpdateRiderCounters(d, pk, total, successful) ==
  IF pk \notin RiderIds THEN [db |-> d, status |-> 404]
  ELSE [db |-> [d EXCEPT !.riders[pk].total_deliveries = total,
                         !.riders[pk].successful_deliveries = successful],
        status |-> 200]

\* Rider.success_rate, as the fraction num / den (den # 0):
\*   0 if total_deliveries == 0, else (successful / total) * 100
SuccessRate(rider) ==
  IF rider.total_deliveries = 0 THEN [num |-> 0, den |-> 1]
  ELSE [num |-> rider.successful_deliveries * 100, den |-> rider.total_deliveries]

\* OrderListCreateView POST (OrderCreateSerializer.create): a new order waits
\* for its customer's answer.  Keys are handed out in creation order; here the
\* new order takes pk, the key of an order that is settled, whose row is
\* forgotten
CreateOrder(d, pk, landmark, date, start) ==
  [d EXCEPT !.orders[pk] = [@ EXCEPT !.status = "PENDING_CONFIRMATION",
                                     !.assigned_rider = NoRider,
                                     !.landmark = landmark,
                                     !.delivery_date = date,
                                     !.delivery_time_start = start]]

\* ------------------------------------------------------------- initial states
NumCallers == 2
Callers == 1..NumCallers

\* An order is created PENDING_CONFIRMATION with no rider (OrderCreateSerializer);
\* a rider is created AVAILABLE with rating 5.00 and no delivery yet.  The order
\* books tried: order 1 still waits for its customer, the others are confirmed;
\* all but the newest order share landmark 1 and date 1, with start times that
\* differ; the newest order has any landmark (or none) and any date.  The
\* riders are alike, so the database's order among them decides a selection.
DefaultRating == 500

OrderRow(status, landmark, date, start) ==
  [status |-> status, assigned_rider |-> NoRider, landmark |-> landmark,
   delivery_date |-> date, delivery_time_start |-> start]

RiderRow(preferred) ==
  [status |-> "AVAILABLE", preferred_landmarks |-> preferred, rating |-> DefaultRating,
   total_deliveries |-> 0, successful_deliveries |-> 0, failed_deliveries |-> 0]

InitOrders ==
  {[o \in OrderIds |->
      OrderRow(IF o = 1 THEN "PENDING_CONFIRMATION" ELSE "CONFIRMED",
               IF o = NumOrders THEN l ELSE 1,
               IF o = NumOrders THEN dt ELSE 1,
               ((o - 1) % MaxTime) + 1)]
   : l \in {NoLandmark} \cup Landmarks, dt \in Dates}

InitRiders == {[r \in RiderIds |-> RiderRow({})]}

InitDB ==
  /\ orders \in InitOrders
  /\ riders \in InitRiders
  /\ routes = <<>>
  /\ calls = [p \in Callers |-> IdleCall]
  /\ last = [op |-> "none"]

Init ==
  /\ InitDB
  /\ ops = MaxOps

\* ------------------------------------------------------------------- actions
SetDB(d) ==
  /\ orders' = d.orders
  /\ riders' = d.riders
  /\ routes' = d.routes

\* a handler runs from its first statement to its response
Handled(d, record) ==
  /\ ops > 0
  /\ Len(d.routes) <= MaxRoutes
  /\ SetDB(d)
  /\ last' = record
  /\ ops' = ops - 1
  /\ UNCHANGED calls

\* AssignOrdersView.post, or a direct call with the caller's queryset
Assign ==
  \E qs \in {[default |-> TRUE, ids |-> {}]}
            \cup {[default |-> FALSE, ids |-> S] : S \in SUBSET OrderIds} :
    \E c \in AssignOrdersToRiders(DB, qs) :
      Handled(c.db, [op |-> "assign", qs |-> qs, report |-> c.loc.report,
                     done |-> c.loc.done, sent |-> c.loc.sent])

\* the requests tried: one by a user who is not staff, and a staff user's with
\* every order (one unknown) and every rider id (none, one unknown)
ManualRequests ==
  {[is_staff |-> FALSE, pk |-> 1, rider_id |-> 1]}
    \cup [is_staff : {TRUE}, pk : 1..(NumOrders + 1), rider_id : 0..(NumRiders + 1)]

ManualAssign ==
  \E req \in ManualRequests :
    \E out \in ManualAssignOrder(DB, req.is_staff, req.pk, req.rider_id) :
      Handled(out.db, [op |-> "manual_assign", req |-> req, status |-> out.status,
                       sent |-> out.sent])

Optimize ==
  \E rider \in RiderIds, date \in Dates :
    \E out \in OptimizeRiderRoute(DB, rider, date) :
      Handled(out.db, [op |-> "optimize", rider |-> rider, date |-> date,
                       summary |-> out.summary])

OrderConfirm ==
  \E pk \in 1..(NumOrders + 1) :
    \E out \in {ConfirmOrder(DB, pk)} :
        Handled(out.db, [op |-> "confirm", pk |-> pk, status |-> out.status])

RiderUpdateStatus ==
  \E pk \in 1..(NumRiders + 1), new_status \in STATUS_CHOICES \cup {"BUSY"} :
    \E out \in {UpdateRiderStatus(DB, pk, new_status)} :
      Handled(out.db, [op |-> "rider_status", pk |-> pk, new_status |-> new_status,
                       status |-> out.status])

CompleteRoute ==
  \E pk \in 1..(MaxRoutes + 1) :
    \E out \in {CompleteRouteById(DB, pk)} :
      Handled(out.db, [op |-> "complete_route", pk |-> pk, status |-> out.status])

Next ==
  \/ Assign
  \/ ManualAssign
  \/ Optimize
  \/ OrderConfirm
  \/ RiderUpdateStatus
  \/ CompleteRoute

Spec == Init /\ [][Next]_vars

\* ------------------------------------------------ the route handlers alone
\* manual assignment, route completion and the optimizer, one request longer
InitRoutes ==
  /\ InitDB
  /\ ops = MaxRouteOps

NextRoutes ==
  \/ ManualAssign
  \/ Optimize
  \/ CompleteRoute

SpecRoutes == InitRoutes /\ [][NextRoutes]_vars

\* ------------------------------------------------------ rider selection alone
\* One cohort (order 1) and riders with a history: rider 1 carries k orders that
\* count as current assignments for the cohort's date and others that do not
ScoreOrderIds == 1..NumScoreOrders

Ratings == {0, 400, 500, 999, 1000}

ScoreOrders(k, l) ==
  [o \in ScoreOrderIds |->
     IF o = 1 THEN OrderRow("CONFIRMED", l, 1, 1)
     ELSE IF o - 1 <= k
     THEN [OrderRow(IF o % 2 = 0 THEN "ASSIGNED" ELSE "IN_TRANSIT", 1, 1, 1)
             EXCEPT !.assigned_rider = 1]
     ELSE [OrderRow(IF o % 2 = 0 THEN "ASSIGNED" ELSE "DELIVERED", 1,
                    IF o % 2 = 0 THEN 2 ELSE 1, 1)
             EXCEPT !.assigned_rider = 1]]

ScoreRiderRows ==
  {[RiderRow(pl) EXCEPT !.total_deliveries = c[1],
                        !.successful_deliveries = c[2],
                        !.failed_deliveries = c[1] - c[2]]
   : pl \in {{}, {1}},
     c \in {x \in (0..MaxDeliveries) \X (0..MaxDeliveries) : x[2] <= x[1]}}

InitScore ==
  /\ orders \in {ScoreOrders(k, l) : k \in 0..(NumScoreOrders - 1), l \in Landmarks}
  /\ riders \in [RiderIds -> ScoreRiderRows]
  /\ routes = <<>>
  /\ calls = [p \in Callers |-> IdleCall]
  /\ last = [op |-> "none"]
  /\ ops = MaxScoreOps

\* RiderDetailView: PATCH of a rider's rating
RiderPatchRating ==
  \E pk \in RiderIds, rating \in Ratings :
    \E out \in {UpdateRiderRating(DB, pk, rating)} :
      Handled(out.db, [op |-> "rider_rating", pk |-> pk, rating |-> rating,
                       status |-> out.status])

\* _assign_group_to_rider up to the selection, for the cohort of order 1
SelectRider ==
  \E pool \in AvailableRiders(DB) :
    /\ Len(pool) > 0
    /\ LET os == <<Fetch(DB, 1)>>
           landmark == os[1].landmark
       IN Handled(DB, [op |-> "find_best_rider", pool |-> pool,
                       landmark |-> landmark, orders |-> os,
                       scored |-> ScoredRiders(DB, pool, landmark, os),
                       best |-> FindBestRider(DB, pool, landmark, os)])

NextScore ==
  \/ RiderPatchRating
  \/ SelectRider

SpecScore == InitScore /\ [][NextScore]_vars

\* ------------------------------------------- a cohort and a loaded rider
\* The cohort of order 1 while rider 1 carries five or six current
\* assignments for its date and the last rider is AVAILABLE or OFFLINE; the
\* riders have no deliveries yet or MaxDeliveries of them, all failed or all
\* successful; ratings change by request
CohortRiderRows ==
  {r \in ScoreRiderRows : /\ r.total_deliveries \in {0, MaxDeliveries}
                          /\ r.successful_deliveries \in {0, r.total_deliveries}}

InitCohort ==
  /\ orders \in {ScoreOrders(k, l) : k \in (NumScoreOrders - 2)..(NumScoreOrders - 1),
                                    l \in Landmarks}
  /\ riders \in {[f EXCEPT ![NumRiders].status = st] :
                   f \in [RiderIds -> CohortRiderRows], st \in {"AVAILABLE", "OFFLINE"}}
  /\ routes = <<>>
  /\ calls = [p \in Callers |-> IdleCall]
  /\ last = [op |-> "none"]
  /\ ops = MaxCohortOps

NextCohort ==
  \/ RiderPatchRating
  \/ Assign

SpecCohort == InitCohort /\ [][NextCohort]_vars

\* ------------------------------------------------------------ grouping alone
\* any book of orders, each with a landmark (or none) and a delivery date
InitGroup ==
  /\ orders \in [OrderIds ->
                  {OrderRow(st, l, dt, 1) : st \in {"CONFIRMED"},
                                            l \in {NoLandmark} \cup Landmarks,
                                            dt \in Dates}]
  /\ riders \in InitRiders
  /\ routes = <<>>
  /\ calls = [p \in Callers |-> IdleCall]
  /\ last = [op |-> "none"]
  /\ ops = MaxGroupOps

\* assign_orders_to_riders up to line 23: the order set is fetched and grouped
GroupOrders ==
  \E qs \in {q \in [default : BOOLEAN, ids : SUBSET OrderIds] : q.default => q.ids = {}} :
    \E grouped \in {GroupOrdersByLandmarkAndDate(FetchAll(DB, qs))} :
      Handled(DB, [op |-> "group", qs |-> qs, input |-> FetchAll(DB, qs),
                   grouped |-> grouped])

NextGroups ==
  \/ GroupOrders

SpecGroup == InitGroup /\ [][NextGroups]_vars

\* ------------------------------------------------- the order status handlers
\* Two orders wait for the customer's answer; the third is CONFIRMED, or was
\* assigned to rider 1 by a manual assignment
Phones == {<<"0", "7">>, <<"0", "8">>}

InitStatus ==
  /\ \E p1 \in Phones, p2 \in Phones, assigned \in BOOLEAN :
       /\ orders = [o \in OrderIds |->
                      IF o = NumOrders
                      THEN [OrderRow(IF assigned THEN "ASSIGNED" ELSE "CONFIRMED", 1, 1, 1)
                              EXCEPT !.assigned_rider = IF assigned THEN 1 ELSE NoRider]
                             @@ [customer_phone |-> p1]
                      ELSE OrderRow("PENDING_CONFIRMATION", 1, 1, 1)
                             @@ [customer_phone |-> IF o = 1 THEN p1 ELSE p2]]
       /\ routes = IF assigned
                   THEN <<[NewRoute(1, 1, 1, 1, 1) EXCEPT !.orders = {NumOrders}]>>
                   ELSE <<>>
  /\ riders \in InitRiders
  /\ calls = [p \in Callers |-> IdleCall]
  /\ last = [op |-> "none"]
  /\ ops = MaxStatusOps

\* the bodies tried: every status and one that is no status, with proof and
\* reason, and DELIVERED without proof and FAILED without reason
StatusRequests ==
  [status : ORDER_STATUS \cup {"LOST"}, delivery_proof : {TRUE}, failure_reason : {TRUE}]
    \cup {[status |-> "DELIVERED", delivery_proof |-> FALSE, failure_reason |-> TRUE],
          [status |-> "FAILED", delivery_proof |-> TRUE, failure_reason |-> FALSE]}

OrderUpdateStatus ==
  \E pk \in 1..(NumOrders + 1), req \in StatusRequests :
    \E out \in {UpdateOrderStatus(DB, pk, req)} :
      Handled(out.db, [op |-> "update_status", pk |-> pk, req |-> req,
                       status |-> out.status])

OrderReschedule ==
  \E pk \in 1..(NumOrders + 1) :
    \E out \in {RescheduleOrder(DB, pk)} :
      Handled(out.db, [op |-> "reschedule", pk |-> pk, status |-> out.status])

\* the senders and texts tried
SmsPhones == {<<"+", "2", "5", "4", "7">>, <<"0", "8">>, <<"+">>, <<>>}

SmsTexts == {<<"1">>, <<"2">>, <<" ", "1">>, <<"9">>, <<" ">>}

IncomingSms ==
  \E phone \in SmsPhones, text \in SmsTexts :
    \E out \in {SmsWebhook(DB, phone, text)} :
      Handled(out.db, [op |-> "sms", phone |-> phone, text |-> text,
                       status |-> out.status, result |-> out.result])

NextStatus ==
  \/ Assign
  \/ ManualAssign
  \/ OrderConfirm
  \/ OrderReschedule
  \/ OrderUpdateStatus
  \/ IncomingSms

SpecStatus == InitStatus /\ [][NextStatus]_vars

\* ------------------------------------------------------ the rider's counters
\* the values tried for a counter
CounterValues == (0 - 1)..MaxDeliveries

RiderPatchCounters ==
  \E pk \in 1..(NumRiders + 1), total \in CounterValues, successful \in CounterValues :
    \E out \in {UpdateRiderCounters(DB, pk, total, successful)} :
      Handled(out.db, [op |-> "rider_counters", pk |-> pk, total |-> total,
                       successful |-> successful, status |-> out.status])

NextCounters ==
  \/ ManualAssign
  \/ OrderUpdateStatus
  \/ RiderPatchCounters

SpecCounters == InitStatus /\ [][NextCounters]_vars

\* ------------------------------------- status updates, assignment and optimize
NextDeliveries ==
  \/ OrderUpdateStatus
  \/ Assign
  \/ ManualAssign
  \/ Optimize

SpecDeliveries == InitStatus /\ [][NextDeliveries]_vars

\* ------------------------------------- assign passes while orders keep coming
\* Assign is called again and again, each time with a rider AVAILABLE, while
\* customers confirm new orders and riders come back from their deliveries.
\* An order is settled once it has left the statuses PENDING_CONFIRMATION and
\* CONFIRMED: no handler here brings it back, and its key serves the next
\* order created, so that keys still grow with created_at among the orders
\* that wait.  The routes a pass creates are not carried to the next pass:
\* for assign they decide the sequence number of later routes and nothing else.
Settled(o) == orders[o].status \notin {"PENDING_CONFIRMATION", "CONFIRMED"}

InitPasses ==
  /\ orders = [o \in OrderIds |->
                 IF o = 1 THEN OrderRow("CONFIRMED", 1, 1, 1)
                 ELSE [OrderRow("DELIVERED", 1, 1, 1) EXCEPT !.assigned_rider = 1]]
  /\ riders \in {[f EXCEPT ![NumRiders].status = st] :
                   f \in InitRiders, st \in {"AVAILABLE", "OFFLINE"}}
  /\ routes = <<>>
  /\ calls = [p \in Callers |-> IdleCall]
  /\ last = [op |-> "none"]
  /\ ops = 0

\* no assign call is running
Quiet == calls[1].pc = "idle"

OrderCreated ==
  \E pk \in OrderIds, landmark \in Landmarks :
    /\ Quiet
    /\ Settled(pk)
    /\ \A o \in OrderIds : ~Settled(o) => o < pk
    /\ SetDB(CreateOrder(DB, pk, landmark, 1, 1))
    /\ last' = [op |-> "create", pk |-> pk]
    /\ UNCHANGED <<calls, ops>>

OrderConfirmed ==
  \E pk \in OrderIds :
    \E out \in {ConfirmOrder(DB, pk)} :
      /\ Quiet
      /\ out.status = 200
      /\ SetDB(out.db)
      /\ last' = [op |-> "confirm", pk |-> pk]
      /\ UNCHANGED <<calls, ops>>

RiderReturns ==
  \E pk \in RiderIds :
    \E out \in {UpdateRiderStatus(DB, pk, "AVAILABLE")} :
      /\ Quiet
      /\ riders[pk].status = "ON_DELIVERY"
      /\ SetDB(out.db)
      /\ last' = [op |-> "rider_status", pk |-> pk]
      /\ UNCHANGED <<calls, ops>>

\* assign is invoked with the default order set while a rider is AVAILABLE
PassInvoked ==
  /\ Quiet
  /\ \E r \in RiderIds : riders[r].status = "AVAILABLE"
  /\ calls' = [calls EXCEPT ![1] = StartCall([default |-> TRUE, ids |-> {}])]
  /\ UNCHANGED <<orders, riders, routes, last, ops>>

\* the call runs to its return, with nothing in between
PassRuns ==
  /\ calls[1].pc = "start"
  /\ \E c \in RunAssign([db |-> DB, loc |-> calls[1]]) :
       /\ SetDB([c.db EXCEPT !.routes = <<>>])
       /\ last' = [op |-> "assign", status |-> c.loc.report.status]
  /\ calls' = [calls EXCEPT ![1] = IdleCall]
  /\ UNCHANGED ops

NextPasses ==
  \/ OrderCreated
  \/ OrderConfirmed
  \/ RiderReturns
  \/ PassInvoked
  \/ PassRuns

\* assign is invoked again and again, and riders come back
SpecPasses ==
  InitPasses /\ [][NextPasses]_vars /\ SF_vars(PassInvoked) /\ WF_vars(RiderReturns)

\* ------------------------------------------- two assign calls, interleaved
\* AssignOrdersView.post by two callers at once: each statement of a call is a
\* step of its own, and nothing orders the statements of different calls
Begin(p) ==
  /\ calls[p].pc = "idle"
  /\ calls' = [calls EXCEPT ![p] = StartCall([default |-> TRUE, ids |-> {}])]
  /\ UNCHANGED <<orders, riders, routes, last, ops>>

Statement(p) ==
  /\ calls[p].pc \notin {"idle", "done"}
  /\ \E c \in AssignStep([db |-> DB, loc |-> calls[p]]) :
       /\ SetDB(c.db)
       /\ calls' = [calls EXCEPT ![p] = c.loc]
  /\ UNCHANGED <<last, ops>>

NextConc ==
  \/ \E p \in Callers : Begin(p)
  \/ \E p \in Callers : Statement(p)

SpecConc == Init /\ [][NextConc]_vars

\* ------------------------------------------- one assign call, by statement
\* the first caller's call alone, a statement at a time
NextOneCall ==
  \/ Begin(1)
  \/ Statement(1)

SpecOneCall == Init /\ [][NextOneCall]_vars

\* ------------------------------------------------------------------- claims
MembershipCount(o) == Cardinality({i \in 1..Len(routes) : o \in routes[i].orders})

(* C1: an assign call, over the default order set or a caller's, changes an
   order only if the order was CONFIRMED with no rider just before the call,
   and then it gives the order one rider and status ASSIGNED; every other
   order is left as it was. *)
C1_OnlyConfirmedUnassignedTouched ==
  [][last'.op = "assign" =>
       \A o \in OrderIds :
          \/ orders'[o] = orders[o]
          \/ /\ orders[o].status = "CONFIRMED"
             /\ orders[o].assigned_rider = NoRider
             /\ \E r \in RiderIds :
                  orders'[o] = [orders[o] EXCEPT !.status = "ASSIGNED",
                                                 !.assigned_rider = r]]_vars

(* C2: in one assign call every rider selected for a group was AVAILABLE when
   the call reached the group (AVAILABLE before the call and not selected by
   an earlier group), no rider is selected for two groups, and the rider of an
   assigned group is ON_DELIVERY afterwards. *)
C2_RiderSelectedOncePerPass ==
  [][last'.op = "assign" =>
       LET done == last'.done
           sel == {i \in 1..Len(done) : done[i].rider # NoRider}
       IN /\ \A i \in sel : riders[done[i].rider].status = "AVAILABLE"
          /\ \A i, j \in sel : i # j => done[i].rider # done[j].rider
          /\ \A i \in sel : done[i].outcome = "assigned"
                               => riders'[done[i].rider].status = "ON_DELIVERY"]_vars

\* an assign call assigned two groups (to two riders)
C2_Witness ==
  /\ last.op = "assign"
  /\ \E i, j \in 1..Len(last.done) :
       i < j /\ last.done[i].outcome = "assigned" /\ last.done[j].outcome = "assigned"

(* C3: after assign has assigned a group, every order of the group is
   ASSIGNED to the selected rider, exactly one route was created for that
   rider, landmark and date, its members are exactly the group's orders, and
   the rider is ON_DELIVERY. *)
C3_GroupAssignedAsUnit ==
  [][last'.op = "assign" =>
       \A i \in 1..Len(last'.done) :
          LET e == last'.done[i]
              new == {k \in (Len(routes) + 1)..Len(routes') :
                        /\ routes'[k].rider = e.rider
                        /\ routes'[k].landmark = e.landmark
                        /\ routes'[k].route_date = e.delivery_date}
          IN e.outcome = "assigned" =>
               /\ \A o \in e.orders : /\ orders'[o].status = "ASSIGNED"
                                       /\ orders'[o].assigned_rider = e.rider
               /\ Cardinality(new) = 1
               /\ \A k \in new : k = e.route /\ routes'[k].orders = e.orders
               /\ riders'[e.rider].status = "ON_DELIVERY"]_vars

\* an assign call assigned a group of two orders or more
C3_Witness ==
  /\ last.op = "assign"
  /\ \E i \in 1..Len(last.done) :
       last.done[i].outcome = "assigned" /\ Cardinality(last.done[i].orders) >= 2

(* C4: when assign runs while no rider is AVAILABLE, every group it processes
   gets one failure entry with reason "No available riders" in the report, and
   the call changes no order, creates no route, sends no notification and
   changes no rider. *)
C4_NoAvailableRidersFailure ==
  [][(last'.op = "assign" /\ \A r \in RiderIds : riders[r].status # "AVAILABLE") =>
       /\ \A i \in 1..Len(last'.done) :
            /\ last'.done[i].outcome = "failed"
            /\ last'.report.status = "success"
            /\ Len(last'.report.details) >= i
            /\ last'.report.details[i] =
                 [success |-> FALSE, landmark |-> last'.done[i].landmark,
                  reason |-> "No available riders",
                  order_count |-> Cardinality(last'.done[i].orders)]
       /\ orders' = orders
       /\ routes' = routes
       /\ riders' = riders
       /\ last'.sent = <<>>]_vars

\* the routes of a rider and date carry 1, 2, ... in the order of their creation
InCreationOrder(rs, rider, date) ==
  LET idx == {i \in 1..Len(rs) : rs[i].rider = rider /\ rs[i].route_date = date}
  IN \A i \in idx : rs[i].sequence = Cardinality({j \in idx : j <= i})

(* C5: as long as no optimizer runs, the routes of a rider and date carry
   exactly 1..N in creation order: a handler other than optimize that finds
   them so leaves them so, each new route receiving 1 + the current maximum
   (1 if there is none). *)
C5_GaplessSequences ==
  [][last'.op # "optimize" =>
       \A r \in RiderIds, dt \in Dates :
          InCreationOrder(routes, r, dt) => InCreationOrder(routes', r, dt)]_vars

(* C6: no two routes of the same rider and route_date carry the same sequence
   number, and every sequence number is at least 1. *)
C6_SequenceUniquePerRiderDate ==
  /\ \A i \in 1..Len(routes) : routes[i].sequence >= 1
  /\ \A i, j \in 1..Len(routes) :
       (/\ i # j
        /\ routes[i].rider = routes[j].rider
        /\ routes[i].route_date = routes[j].route_date)
         => routes[i].sequence # routes[j].sequence

\* the routes a call has created so far
CreatedBy(p) ==
  ({calls[p].done[i].route : i \in 1..Len(calls[p].done)} \ {0})
    \cup (IF calls[p].pc \in {"route_set", "sms", "rider_save"}
          THEN {calls[p].route} ELSE {})

(* C7: two routes created by two concurrent assign calls for the same rider
   and date never carry the same sequence number. *)
C7_ConcurrentCreationsDistinct ==
  \A p, q \in Callers :
     p # q =>
       \A i \in CreatedBy(p), j \in CreatedBy(q) :
          (routes[i].rider = routes[j].rider /\ routes[i].route_date = routes[j].route_date)
            => routes[i].sequence # routes[j].sequence

\* the orders a call has saved with a rider so far: a call over the default
\* order set fetches them unassigned
SavedBy(p) ==
  UNION {{calls[p].grouped[g].orders[i].id :
            i \in {k \in 1..Len(calls[p].grouped[g].orders) :
                     calls[p].grouped[g].orders[k].assigned_rider # NoRider}}
         : g \in 1..Len(calls[p].grouped)}

(* C8: when two assign calls interleave over the same CONFIRMED unassigned
   orders, no order is assigned by both calls and no order is a member of two
   routes. *)
C8_OrderAssignedByOneCall ==
  /\ \A p, q \in Callers : p # q => SavedBy(p) \cap SavedBy(q) = {}
  /\ \A o \in OrderIds : MembershipCount(o) <= 1

(* C9: after any sequence of assign and manual assignment operations every
   order is a member of at most one route: of exactly one if it has been
   assigned (and a route could be made for its landmark), of none if it has no
   rider. *)
C9_AtMostOneRoutePerOrder ==
  \A o \in OrderIds :
     /\ MembershipCount(o) <= 1
     /\ orders[o].assigned_rider = NoRider => MembershipCount(o) = 0
     /\ (orders[o].assigned_rider # NoRider /\ orders[o].landmark # NoLandmark)
          => MembershipCount(o) = 1

(* C10: optimize(rider, date) is idempotent: a second run directly after the
   first, for the same rider and date, leaves every route with the sequence
   number the first run gave it. *)
C10_OptimizeIdempotent ==
  [][(/\ last.op = "optimize"
      /\ last'.op = "optimize"
      /\ last'.rider = last.rider
      /\ last'.date = last.date)
       => routes' = routes]_vars

\* the routes optimize(rider, date) is about, in the current state
Optimized(rs) ==
  {i \in 1..Len(rs) : /\ rs[i].rider = last.rider
                       /\ rs[i].route_date = last.date
                       /\ ~rs[i].completed}

(* C11: after optimize(rider, date) the rider's N incomplete routes for the
   date carry exactly the sequence numbers 1..N, and a route with an earlier
   estimated_arrival has a smaller sequence number than one with a later. *)
C11_OptimizeRenumbersByArrival ==
  last.op = "optimize" =>
    LET R == Optimized(routes)
    IN /\ {routes[i].sequence : i \in R} = 1..Cardinality(R)
       /\ \A i, j \in R : i # j => routes[i].sequence # routes[j].sequence
       /\ \A i, j \in R :
            routes[i].estimated_arrival < routes[j].estimated_arrival
              => routes[i].sequence < routes[j].sequence

\* optimize has put a route created later before one created earlier
C11_Witness ==
  /\ last.op = "optimize"
  /\ \E i, j \in Optimized(routes) :
       /\ i < j
       /\ routes[j].estimated_arrival < routes[i].estimated_arrival
       /\ routes[j].sequence < routes[i].sequence

(* C12: optimize(rider, date) changes nothing but the sequence field of that
   rider's incomplete routes for that date: completed routes, routes of other
   riders or dates, route membership, orders and riders are left unchanged. *)
C12_OptimizeFrame ==
  [][last'.op = "optimize" =>
       /\ orders' = orders
       /\ riders' = riders
       /\ Len(routes') = Len(routes)
       /\ \A i \in 1..Len(routes) :
            IF /\ routes[i].rider = last'.rider
               /\ routes[i].route_date = last'.date
               /\ ~routes[i].completed
            THEN routes'[i] = [routes[i] EXCEPT !.sequence = routes'[i].sequence]
            ELSE routes'[i] = routes[i]]_vars

\* optimize ran for a rider and date with a completed route and an incomplete one
C12_Witness ==
  /\ last.op = "optimize"
  /\ Optimized(routes) # {}
  /\ \E i \in 1..Len(routes) :
       /\ routes[i].rider = last.rider
       /\ routes[i].route_date = last.date
       /\ routes[i].completed

(* C13: given a non-empty pool, selection returns a rider whose total score
   is maximal over the pool and, among the riders with that score, the one
   that comes first in the pool's iteration order; selecting again from the
   same pool for the same cohort yields the same scores and the same rider. *)
C13_SelectsFirstMaximal ==
  [][last'.op = "find_best_rider" =>
       LET sc == last'.scored
       IN /\ \E i \in 1..Len(sc) :
               /\ sc[i].rider = last'.best
               /\ \A j \in 1..Len(sc) : ~ScoreGreater(sc[j].score, sc[i].score)
               /\ \A j \in 1..(i - 1) : ScoreGreater(sc[i].score, sc[j].score)
          /\ (/\ last.op = "find_best_rider"
              /\ last.pool = last'.pool
              /\ last.landmark = last'.landmark
              /\ last.orders = last'.orders)
               => (last'.scored = last.scored /\ last'.best = last.best)]_vars

\* a selection from a pool whose first two riders tie with the maximal score
C13_Witness ==
  /\ last.op = "find_best_rider"
  /\ Len(last.scored) >= 2
  /\ ~ScoreGreater(last.scored[1].score, last.scored[2].score)
  /\ ~ScoreGreater(last.scored[2].score, last.scored[1].score)
  /\ last.best = last.scored[1].rider

\* the orders that count as a rider's current assignments for a date
SameDayAssignments(r, date) ==
  Cardinality({o \in DOMAIN orders : /\ orders[o].assigned_rider = r
                                     /\ orders[o].status \in {"ASSIGNED", "IN_TRANSIT"}
                                     /\ orders[o].delivery_date = date})

(* C14: the workload component of a rider's score is 25 for 0 current same-day
   assignments, 15 for 1 or 2, 5 for 3, 4 or 5, and 0 for more than 5. *)
C14_WorkloadBuckets ==
  last.op = "find_best_rider" =>
    \A i \in 1..Len(last.scored) :
       LET n == SameDayAssignments(last.scored[i].rider.id, last.orders[1].delivery_date)
           w == last.scored[i].workload
       IN /\ n = 0 => w = 25
          /\ n \in 1..2 => w = 15
          /\ n \in 3..5 => w = 5
          /\ n > 5 => w = 0

\* a rider with exactly 3 same-day assignments was scored
C14_Witness ==
  /\ last.op = "find_best_rider"
  /\ \E i \in 1..Len(last.scored) :
       /\ SameDayAssignments(last.scored[i].rider.id, last.orders[1].delivery_date) = 3
       /\ last.scored[i].workload = 5

(* C15: the total score of every rider lies in 0..100, its rating component
   never exceeds 25, and a rider with a preferred-landmark match, no same-day
   assignment, rating 5.0 and success rate 100 scores exactly 100. *)
C15_ScoreWithinBounds ==
  last.op = "find_best_rider" =>
    \A i \in 1..Len(last.scored) :
       LET e == last.scored[i]
       IN /\ e.score.num >= 0
          /\ e.score.num <= 100 * e.score.den
          /\ e.rating_score.num <= 25 * e.rating_score.den
          /\ (/\ e.familiarity = 30
              /\ e.current_assignments = 0
              /\ e.rider.rating = 500
              /\ e.rider.total_deliveries > 0
              /\ e.rider.successful_deliveries = e.rider.total_deliveries)
               => e.score.num = 100 * e.score.den

\* the places of an order in the groups: (group, position) pairs
PlacesOf(grouped, order) ==
  {gk \in UNION {{<<g, k>> : k \in 1..Len(grouped[g].orders)} : g \in 1..Len(grouped)} :
     grouped[gk[1]].orders[gk[2]] = order}

\* the position of an order in the input
IndexIn(os, order) == CHOOSE i \in 1..Len(os) : os[i] = order

(* C16: grouping is a partition of its input: every input order appears in
   exactly one group, every member of a group is an input order with exactly
   the group's (landmark, delivery_date), no two groups have the same key, no
   group is empty, and within a group the orders keep their input order. *)
C16_GroupingIsPartition ==
  last.op = "group" =>
    LET os == last.input
        grouped == last.grouped
    IN /\ \A i \in 1..Len(os) : Cardinality(PlacesOf(grouped, os[i])) = 1
       /\ \A g \in 1..Len(grouped) :
            /\ Len(grouped[g].orders) >= 1
            /\ \A k \in 1..Len(grouped[g].orders) :
                 /\ grouped[g].orders[k] \in SeqRange(os)
                 /\ grouped[g].orders[k].landmark = grouped[g].landmark
                 /\ grouped[g].orders[k].delivery_date = grouped[g].delivery_date
            /\ \A k1, k2 \in 1..Len(grouped[g].orders) :
                 k1 < k2 => IndexIn(os, grouped[g].orders[k1])
                              < IndexIn(os, grouped[g].orders[k2])
       /\ \A g, h \in 1..Len(grouped) :
            g # h => \/ grouped[g].landmark # grouped[h].landmark
                     \/ grouped[g].delivery_date # grouped[h].delivery_date

\* three orders grouped into a group of two and a group of one that share a
\* landmark and differ in date
C16_Witness ==
  /\ last.op = "group"
  /\ Len(last.input) = 3
  /\ \E g, h \in 1..Len(last.grouped) :
       /\ g # h
       /\ Len(last.grouped[g].orders) = 2
       /\ last.grouped[g].landmark = last.grouped[h].landmark

Terminal == {"DELIVERED", "FAILED", "CANCELLED"}

\* the edges of the order state machine
Edge(old, new) ==
  \/ old = "PENDING_CONFIRMATION" /\ new \in {"CONFIRMED", "RESCHEDULE_REQUESTED"}
  \/ old = "CONFIRMED" /\ new = "ASSIGNED"
  \/ old = "ASSIGNED" /\ new = "IN_TRANSIT"
  \/ old = "IN_TRANSIT" /\ new \in {"DELIVERED", "FAILED"}
  \/ old \notin Terminal /\ new = "CANCELLED"

(* C17: DELIVERED, FAILED and CANCELLED are terminal: once an order has one
   of these statuses, no operation (assign, manual assignment, order status
   update, confirm, reschedule, incoming SMS) changes its status. *)
C17_TerminalStatusesStay ==
  [][\A o \in OrderIds :
       orders[o].status \in Terminal => orders'[o].status = orders[o].status]_vars

(* C18: every status change applied to a non-terminal order by assign, manual
   assignment or the order status update follows an edge of the order state
   machine: ASSIGNED only from CONFIRMED, IN_TRANSIT only from ASSIGNED,
   DELIVERED or FAILED only from IN_TRANSIT. *)
C18_StatusChangesFollowEdges ==
  [][last'.op \in {"assign", "manual_assign", "update_status"} =>
       \A o \in OrderIds :
          (orders[o].status \notin Terminal /\ orders'[o].status # orders[o].status)
            => Edge(orders[o].status, orders'[o].status)]_vars

(* C19: the confirm operation, the reschedule operation and the incoming-SMS
   handler change only an order whose status is PENDING_CONFIRMATION, and only
   its status, to CONFIRMED or RESCHEDULE_REQUESTED; a confirm or reschedule
   request on an order in any other status is rejected with the order
   unchanged. *)
C19_OnlyPendingConfirmedOrRescheduled ==
  [][last'.op \in {"confirm", "reschedule", "sms"} =>
       /\ riders' = riders
       /\ routes' = routes
       /\ \A o \in OrderIds :
            orders'[o] # orders[o] =>
              /\ orders[o].status = "PENDING_CONFIRMATION"
              /\ \E st \in {"CONFIRMED", "RESCHEDULE_REQUESTED"} :
                   orders'[o] = [orders[o] EXCEPT !.status = st]
       /\ (/\ last'.op \in {"confirm", "reschedule"}
           /\ last'.pk \in OrderIds
           /\ orders[last'.pk].status # "PENDING_CONFIRMATION")
            => (last'.status = 400 /\ orders' = orders)]_vars

\* a confirm request on an order in a terminal status was rejected
C19_Witness ==
  /\ last.op = "confirm"
  /\ last.pk \in OrderIds
  /\ last.status = 400
  /\ orders[last.pk].status \in Terminal

\* the delivery counters of a rider
Counters(row) ==
  <<row.total_deliveries, row.successful_deliveries, row.failed_deliveries>>

\* the status update of this step was applied to an order that had rider r
Outcome20(r, st) ==
  /\ last'.op = "update_status"
  /\ last'.status = 200
  /\ last'.req.status = st
  /\ orders[last'.pk].assigned_rider = r

(* C20: when an order with an assigned rider is set to DELIVERED, that rider's
   total_deliveries and successful_deliveries each increase by exactly 1 and
   failed_deliveries is unchanged; when it is set to FAILED, total_deliveries
   and failed_deliveries each increase by exactly 1 and successful_deliveries
   is unchanged; no other status change alters any rider counter. *)
C20_DeliveryCounters ==
  [][\A r \in RiderIds :
       LET c == Counters(riders[r])
       IN Counters(riders'[r]) =
            IF Outcome20(r, "DELIVERED") THEN <<c[1] + 1, c[2] + 1, c[3]>>
            ELSE IF Outcome20(r, "FAILED") THEN <<c[1] + 1, c[2], c[3] + 1>>
            ELSE c]_vars

\* an order with a rider was set to FAILED
C20_Witness ==
  /\ last.op = "update_status"
  /\ last.status = 200
  /\ last.req.status = "FAILED"
  /\ orders[last.pk].assigned_rider # NoRider
  /\ riders[orders[last.pk].assigned_rider].failed_deliveries >= 1

\* the groups a call assigned, in processing order
AssignedGroups(done) == SelectSeq(done, LAMBDA e : e.outcome = "assigned")

\* the position in done of the k-th assigned group
RECURSIVE PositionOfAssigned(_, _, _)
PositionOfAssigned(done, k, i) ==
  IF done[i].outcome = "assigned"
  THEN IF k = 1 THEN i ELSE PositionOfAssigned(done, k - 1, i + 1)
  ELSE PositionOfAssigned(done, k, i + 1)

(* C21: an assign call attempts exactly one rider notification per group it
   assigns, in the order of the groups, and a notification that fails rolls
   nothing back: after the call the group's orders are ASSIGNED to the
   selected rider, the route exists with the group's orders as members, the
   rider is ON_DELIVERY, the group's outcome is a success, and in the report
   the call returns the group's entry is a success entry. *)
C21_FailedNotificationKeepsAssignment ==
  [][last'.op = "assign" =>
       LET ok == AssignedGroups(last'.done)
           sent == last'.sent
       IN /\ Len(sent) = Len(ok)
          /\ \A k \in 1..Len(sent) :
               LET e == ok[k]
                   i == PositionOfAssigned(last'.done, k, 1)
               IN /\ sent[k].rider = e.rider
                  /\ sent[k].order_count = Cardinality(e.orders)
                  /\ ~sent[k].delivered =>
                       /\ \A o \in e.orders : /\ orders'[o].status = "ASSIGNED"
                                               /\ orders'[o].assigned_rider = e.rider
                       /\ e.route \in (Len(routes) + 1)..Len(routes')
                       /\ routes'[e.route].rider = e.rider
                       /\ routes'[e.route].orders = e.orders
                       /\ riders'[e.rider].status = "ON_DELIVERY"
                       /\ last'.report.status = "success" =>
                            /\ last'.report.details[i].success
                            /\ last'.report.details[i].rider = e.rider
                            /\ last'.report.details[i].order_count = Cardinality(e.orders)]_vars

\* an assign call returned a report after a rider notification of it failed
C21_Witness ==
  /\ last.op = "assign"
  /\ last.report.status = "success"
  /\ \E k \in 1..Len(last.sent) : ~last.sent[k].delivered

(* C22: a staff user's manual assignment request that names an unknown order,
   gives no rider id or names an unknown rider is rejected (404, 400, 404) and
   changes nothing: every order, route and rider is as before and no
   notification is attempted. *)
C22_RejectedManualAssignChangesNothing ==
  [][(/\ last'.op = "manual_assign"
      /\ last'.req.is_staff
      /\ \/ last'.req.pk \notin OrderIds
         \/ last'.req.rider_id \notin RiderIds) =>
       /\ last'.status = IF last'.req.pk \notin OrderIds THEN 404
                         ELSE IF last'.req.rider_id = NoRider THEN 400 ELSE 404
       /\ orders' = orders
       /\ routes' = routes
       /\ riders' = riders
       /\ last'.sent = <<>>]_vars

\* a manual assignment of a CONFIRMED order to an unknown rider was rejected
C22_Witness ==
  /\ last.op = "manual_assign"
  /\ last.req.is_staff
  /\ last.req.pk \in OrderIds
  /\ last.req.rider_id \notin RiderIds \cup {NoRider}
  /\ last.status = 404
  /\ orders[last.req.pk].status = "CONFIRMED"

(* C23: a manual assignment that succeeds (200) adds exactly one route: it is
   for the requested rider, the order's date and landmark, has sequence 1, the
   order as its only member, the order's delivery_time_start as
   estimated_arrival and is not completed; the routes that existed are
   unchanged, no rider row changes (the rider's status stays as it was), and
   the order is ASSIGNED to the rider. *)
C23_ManualAssignCreatesFreshRoute ==
  [][(last'.op = "manual_assign" /\ last'.status = 200) =>
       LET pk == last'.req.pk
           rider == last'.req.rider_id
       IN /\ Len(routes') = Len(routes) + 1
          /\ SubSeq(routes', 1, Len(routes)) = routes
          /\ routes'[Len(routes')] =
               [rider |-> rider, route_date |-> orders[pk].delivery_date,
                landmark |-> orders[pk].landmark, sequence |-> 1,
                estimated_arrival |-> orders[pk].delivery_time_start,
                orders |-> {pk}, completed |-> FALSE]
          /\ riders' = riders
          /\ orders' = [orders EXCEPT ![pk].assigned_rider = rider,
                                      ![pk].status = "ASSIGNED"]]_vars

\* a manual assignment succeeded for a rider who already had a route for the
\* order's date
C23_Witness ==
  /\ last.op = "manual_assign"
  /\ last.status = 200
  /\ \E k \in 1..(Len(routes) - 1) :
       /\ routes[k].rider = last.req.rider_id
       /\ routes[k].route_date = orders[last.req.pk].delivery_date

\* every AVAILABLE rider's total score for a cohort of the date is 0, and
\* there is an AVAILABLE rider
AllAvailableScoreZero(landmark, date) ==
  /\ \E r \in RiderIds : riders[r].status = "AVAILABLE"
  /\ \A r \in RiderIds :
       riders[r].status = "AVAILABLE" =>
         Score(DB, [id |-> r] @@ riders[r], landmark,
               <<[delivery_date |-> date]>>).num = 0

(* C24: when assign reaches a cohort (no earlier cohort of the call having
   been assigned) for which every AVAILABLE rider's total score is 0, the
   cohort gets a failure entry "No suitable rider found" and its orders are
   left as they were. *)
C24_ZeroScoreCohortFails ==
  [][last'.op = "assign" =>
       \A i \in 1..Len(last'.done) :
          LET e == last'.done[i]
          IN (/\ \A j \in 1..(i - 1) : last'.done[j].outcome = "failed"
              /\ AllAvailableScoreZero(e.landmark, e.delivery_date)) =>
               /\ e.outcome = "failed"
               /\ e.reason = "No suitable rider found"
               /\ \A o \in e.orders : orders'[o] = orders[o]]_vars

\* the sum of order_count over the entries of details from the i-th on: over
\* the successful entries only, or over all of them
RECURSIVE SumOrderCounts(_, _, _)
SumOrderCounts(details, i, successful_only) ==
  IF i > Len(details) THEN 0
  ELSE (IF successful_only /\ ~details[i].success THEN 0 ELSE details[i].order_count)
         + SumOrderCounts(details, i + 1, successful_only)

\* the (landmark, delivery_date) keys of a set of orders
GroupKeys(S) == {<<orders[o].landmark, orders[o].delivery_date>> : o \in S}

(* C25: the report an assign call returns for a non-empty order set has one
   detail entry for each (landmark, delivery_date) group of the set and no
   other; assigned_count is the sum of order_count over the successful
   entries, total_orders is the number of orders of the set and the sum of
   order_count over all entries, and assigned_count <= total_orders. *)
C25_ReportAggregates ==
  [][(last'.op = "assign" /\ last'.report.status = "success") =>
       LET considered == QsEval(DB, last'.qs)
           details == last'.report.details
           done == last'.done
       IN /\ considered # {}
          /\ Len(details) = Cardinality(GroupKeys(considered))
          /\ Len(done) = Len(details)
          /\ {<<done[i].landmark, done[i].delivery_date>> : i \in 1..Len(done)}
               = GroupKeys(considered)
          /\ \A i \in 1..Len(details) :
               /\ details[i].landmark = done[i].landmark
               /\ details[i].order_count = Cardinality(done[i].orders)
               /\ details[i].success = (done[i].outcome = "assigned")
               /\ done[i].orders =
                    {o \in considered : /\ orders[o].landmark = done[i].landmark
                                        /\ orders[o].delivery_date = done[i].delivery_date}
          /\ last'.report.assigned_count
               = SumOrderCounts(details, 1, TRUE)
          /\ last'.report.total_orders = Cardinality(considered)
          /\ last'.report.total_orders = SumOrderCounts(details, 1, FALSE)
          /\ last'.report.assigned_count <= last'.report.total_orders]_vars

\* a report with a successful entry and a failure entry of two orders or more
C25_Witness ==
  /\ last.op = "assign"
  /\ last.report.status = "success"
  /\ \E i, j \in 1..Len(last.report.details) :
       /\ last.report.details[i].success
       /\ ~last.report.details[j].success
       /\ last.report.details[j].order_count >= 2

(* C26: an assign call over a non-empty order set, orders without a landmark
   included, raises nothing: it processes every (landmark, delivery_date)
   group of the set and returns a report. *)
C26_AssignNeverRaises ==
  [][(last'.op = "assign" /\ QsEval(DB, last'.qs) # {}) =>
       /\ last'.report.status = "success"
       /\ Len(last'.done) = Cardinality(GroupKeys(QsEval(DB, last'.qs)))
       /\ \A i \in 1..Len(last'.done) : last'.done[i].outcome # "raised"]_vars

(* C27: an assign call whose order set is empty (with the default filter: no
   CONFIRMED unassigned order exists) returns the result "no_orders", which is
   not an error, processes no group, attempts no notification and leaves
   every order, rider and route as it was. *)
C27_NoOrdersChangesNothing ==
  [][(last'.op = "assign" /\ QsEval(DB, last'.qs) = {}) =>
       /\ last'.report = [status |-> "no_orders"]
       /\ last'.done = <<>>
       /\ last'.sent = <<>>
       /\ orders' = orders
       /\ riders' = riders
       /\ routes' = routes]_vars

\* assign with the default filter found no order after an earlier call had
\* assigned some
C27_Witness ==
  /\ last.op = "assign"
  /\ last.qs.default
  /\ last.report.status = "no_orders"
  /\ \E o \in OrderIds : orders[o].status = "ASSIGNED"

(* C28: in every reachable state, for each rider 0 <= successful_deliveries
   <= total_deliveries, and success_rate is 0 when total_deliveries is 0 and
   within [0, 100] otherwise. *)
C28_SuccessRateWithinRange ==
  \A r \in RiderIds :
    LET rate == SuccessRate(riders[r])
    IN /\ 0 <= riders[r].successful_deliveries
       /\ riders[r].successful_deliveries <= riders[r].total_deliveries
       /\ riders[r].total_deliveries = 0 => rate.num = 0
       /\ rate.den > 0
       /\ 0 <= rate.num
       /\ rate.num <= 100 * rate.den

\* the first k orders of the group the call is at are ASSIGNED to its rider
SavedUpTo(c, k) ==
  \A i \in 1..k :
     LET o == c.grouped[c.gi].orders[i].id
     IN orders[o].status = "ASSIGNED" /\ orders[o].assigned_rider = c.best.id

\* the route the call created for the group it is at
RouteOfGroup(c) ==
  /\ c.route = Len(routes)
  /\ routes[c.route].rider = c.best.id
  /\ routes[c.route].route_date = c.grouped[c.gi].delivery_date
  /\ routes[c.route].landmark = c.grouped[c.gi].landmark

(* C29: while a call assigns a group, with n groups assigned before it: the
   orders are saved ASSIGNED with the selected rider one after the other while
   no route and no notification exists for the group; the route is created
   and given the group's orders only after every order is saved; the one
   notification is attempted only after the route has its members; and the
   rider is AVAILABLE throughout, being set ON_DELIVERY only by the last step,
   after which the group counts as assigned. *)
C29_StepsInOrder ==
  LET c == calls[1]
      n == Len(AssignedGroups(c.done))
      size == Len(c.grouped[c.gi].orders)
      members == OrderIdsOf(c.grouped[c.gi].orders)
  IN /\ c.pc \in {"save", "route_read", "route_create", "route_set", "sms", "rider_save"}
          => riders[c.best.id].status = "AVAILABLE"
     /\ c.pc = "save"
          => SavedUpTo(c, c.oi - 1) /\ Len(routes) = n /\ Len(c.sent) = n
     /\ c.pc \in {"route_read", "route_create"}
          => SavedUpTo(c, size) /\ Len(routes) = n /\ Len(c.sent) = n
     /\ c.pc = "route_set"
          => /\ SavedUpTo(c, size) /\ Len(routes) = n + 1 /\ Len(c.sent) = n
             /\ RouteOfGroup(c) /\ routes[c.route].orders = {}
     /\ c.pc = "sms"
          => /\ SavedUpTo(c, size) /\ Len(routes) = n + 1 /\ Len(c.sent) = n
             /\ RouteOfGroup(c) /\ routes[c.route].orders = members
     /\ c.pc = "rider_save"
          => /\ SavedUpTo(c, size) /\ Len(routes) = n + 1 /\ Len(c.sent) = n + 1
             /\ RouteOfGroup(c) /\ routes[c.route].orders = members
             /\ c.sent[n + 1].rider = c.best.id
             /\ c.sent[n + 1].order_count = size
     /\ c.pc \in {"riders", "find", "return", "done"}
          => /\ Len(routes) = n /\ Len(c.sent) = n
             /\ \A i \in 1..Len(c.done) :
                  c.done[i].outcome = "assigned"
                    => riders[c.done[i].rider].status = "ON_DELIVERY"

\* the call has saved the two orders of a group, created the route and
\* notified the rider, who is still AVAILABLE
C29_Witness ==
  /\ calls[1].pc = "rider_save"
  /\ Len(calls[1].grouped[calls[1].gi].orders) >= 2
  /\ riders[calls[1].best.id].status = "AVAILABLE"
  /\ \A o \in OrderIdsOf(calls[1].grouped[calls[1].gi].orders) :
       orders[o].status = "ASSIGNED"

(* C30: every route an assign call creates has as estimated_arrival the
   minimum delivery_time_start of its cohort's orders: one of the cohort's
   orders starts at that time and none starts earlier. *)
C30_ArrivalIsEarliestStart ==
  [][last'.op = "assign" =>
       \A i \in 1..Len(last'.done) :
          LET e == last'.done[i]
          IN e.outcome = "assigned" =>
               /\ e.route \in (Len(routes) + 1)..Len(routes')
               /\ \E o \in e.orders :
                    routes'[e.route].estimated_arrival = orders'[o].delivery_time_start
               /\ \A o \in e.orders :
                    routes'[e.route].estimated_arrival <= orders'[o].delivery_time_start]_vars

\* assign created a route for a cohort whose orders start at different times
C30_Witness ==
  /\ last.op = "assign"
  /\ \E i \in 1..Len(last.done) :
       /\ last.done[i].outcome = "assigned"
       /\ \E o, p \in last.done[i].orders :
            orders[o].delivery_time_start < orders[p].delivery_time_start

\* the orders of a rider
OrdersOfRider(r) == {o \in DOMAIN orders : orders[o].assigned_rider = r}

(* C31: the workload counted for a rider when a cohort is scored is the
   number of the rider's orders that are ASSIGNED or IN_TRANSIT and have the
   delivery_date of the cohort's first order: the rider's orders in another
   status or for another date are not counted. *)
C31_WorkloadCountsSameDayActive ==
  last.op = "find_best_rider" =>
    \A i \in 1..Len(last.scored) :
       LET mine == OrdersOfRider(last.scored[i].rider.id)
           date == last.orders[1].delivery_date
           other == {o \in mine : \/ orders[o].status \notin {"ASSIGNED", "IN_TRANSIT"}
                                  \/ orders[o].delivery_date # date}
       IN last.scored[i].current_assignments = Cardinality(mine) - Cardinality(other)

\* a rider was scored who has a counted order, an ASSIGNED order for another
\* date and a DELIVERED order for the cohort's date
C31_Witness ==
  /\ last.op = "find_best_rider"
  /\ \E i \in 1..Len(last.scored) :
       LET mine == OrdersOfRider(last.scored[i].rider.id)
           date == last.orders[1].delivery_date
       IN /\ last.scored[i].current_assignments >= 1
          /\ \E o \in mine : orders[o].status = "ASSIGNED" /\ orders[o].delivery_date # date
          /\ \E o \in mine : orders[o].status = "DELIVERED" /\ orders[o].delivery_date = date

(* C32: optimize(rider, date) is stable under ties: of two incomplete routes
   of the rider and date with equal estimated_arrival, the one with the
   smaller sequence before the run has the smaller sequence after it. *)
C32_OptimizeStableUnderTies ==
  [][last'.op = "optimize" =>
       \A i, j \in IncompleteRoutes(DB, last'.rider, last'.date) :
          (/\ routes[i].estimated_arrival = routes[j].estimated_arrival
           /\ routes[i].sequence < routes[j].sequence)
            => routes'[i].sequence < routes'[j].sequence]_vars

(* C33: the riders' counters start at 0, and in every state reached by order
   status updates, assign, manual assignment and optimize each rider's
   total_deliveries is successful_deliveries + failed_deliveries. *)
C33_TotalIsSuccessfulPlusFailed ==
  \A r \in RiderIds :
     riders[r].total_deliveries
       = riders[r].successful_deliveries + riders[r].failed_deliveries

\* a rider has a successful delivery and a failed one
C33_Witness ==
  \E r \in RiderIds : /\ riders[r].successful_deliveries >= 1
                       /\ riders[r].failed_deliveries >= 1

\* the riders AVAILABLE in the current state
AvailableNow == {r \in RiderIds : riders[r].status = "AVAILABLE"}

(* C34: an assign call over g groups that starts with k riders AVAILABLE
   assigns exactly the first min(k, g) groups in processing order, each to a
   different rider; every later group fails with "No available riders", and
   "No suitable rider found" is never the reason. *)
C34_FirstGroupsGetTheRiders ==
  [][(last'.op = "assign" /\ QsEval(DB, last'.qs) # {}) =>
       LET k == Cardinality(AvailableNow)
           g == Cardinality(GroupKeys(QsEval(DB, last'.qs)))
           m == IF k < g THEN k ELSE g
           done == last'.done
       IN /\ Len(done) = g
          /\ \A i \in 1..g :
               IF i <= m THEN done[i].outcome = "assigned"
               ELSE done[i].outcome = "failed" /\ done[i].reason = "No available riders"
          /\ \A i, j \in 1..m : i # j => done[i].rider # done[j].rider
          /\ \A i \in 1..g : done[i].reason # "No suitable rider found"]_vars

(* C35: when assign is invoked again and again with a rider AVAILABLE at each
   invocation, and every call returns, every CONFIRMED order without a rider
   is eventually ASSIGNED, also while new orders keep being confirmed between
   the invocations. *)
C35_WaitingOrderEventuallyAssigned ==
  ([]<>Quiet) =>
    \A o \in OrderIds :
       (orders[o].status = "CONFIRMED" /\ orders[o].assigned_rider = NoRider)
         ~> (orders[o].status = "ASSIGNED")

====
